---- MODULE Spec2Model ----
\* Distributed task core of nn.llmbol.dis.vm: ComputeNode (compute-node.ts),
\* TaskScheduler (task-scheduler.ts) and Communication (communication.ts).
\*
\* A ComputeNode is a record of its info fields and its task map; a Task is a
\* record of its mutable field priority, shared by reference between the
\* scheduler queue and the node's map, so there is one record per task id
\* (assignedTo is written by assignTask and read nowhere: it is left out).
\* Promises are modelled by their state: every call of
\* ComputeNode.executeTask in flight is an element of executions, with the state
\* of the Promise.race in TaskScheduler.executeTask and of its timer.
EXTENDS Integers, Sequences, FiniteSets, TLC

\* ------------------------------------------------------------------ bounds
NumNodes == 2
\* Task objects that exist, and how many of them are handed to the scheduler.
NumTasks == 5
NumSubmitted == 2
NodeIds == 1..NumNodes
TaskIds == 1..NumTasks
SubmittedIds == 1..NumSubmitted
\* The node whose methods are also called directly, without a scheduler.
DirectNode == CHOOSE n \in NodeIds : \A m \in NodeIds : n <= m
\* How many times a handler rejects in all.
MaxRejections == 1

\* Task.type values with a handler that awaits a timer (processTask).
TaskTypes == <<"inference", "training">>
TaskType(t) == TaskTypes[((t - 1) % Len(TaskTypes)) + 1]
\* Priorities a submitter gives a task.
Priorities == {0, 1}
\* Capability names, the capability lists handed to the ComputeNode
\* constructor where capabilities are studied, and how long a caller makes a
\* capabilities array by pushing onto it.
Capabilities == {"inference", "training"}
InfoCapabilityArgs == {<<>>, <<"training">>, <<"training", "training">>}
MaxCapabilities == 3

\* Communication: own node id, the peers, the message types in use, what a
\* registered handler does when called, the heartbeatInterval values handed to
\* the constructor and the characters Math.random() can give
\* to a message id.
SelfId == "n0"
PeerIds == {"p1", "p2"}
MessageTypes == {"request"}
\* The values of MessageType, and the types handlers are studied with.
MessageTypeValues == {"request", "response", "broadcast", "heartbeat"}
HandledTypes == {"request", "response"}
HandlerArgs == {"returns", "throws"}
HeartbeatIntervalArgs == {100}
RandomChars == {"a", "b"}
NoTimer == 0
NoMessage == [id |-> "none"]
\* The clock advances by TimeStep up to MaxTime; at most MaxTimers interval
\* timers and MaxInFlight messages sent by users exist at a time.
TimeStep == 100
MaxTime == 400
MaxTimers == 2
MaxInFlight == 2

\* Arrays of tasks handed to submitTasks.
Batches == {b \in SubmittedIds \X SubmittedIds : b[1] # b[2]}
\* timeout values handed to the TaskScheduler constructor (0: the default).
TimeoutArgs == {0, 200}
\* Capability lists handed to the ComputeNode constructor.
CapabilityArgs == {<<>>, <<"training">>}

\* ------------------------------------------------------------------ state
VARIABLES
    node,           \* ComputeNode objects: id -> [status, capabilities, load, tasks]
    task,           \* Task objects: id -> [priority]
    nodes,          \* TaskScheduler.nodes: the registry, in insertion order
    taskQueue,      \* TaskScheduler.taskQueue
    config,         \* TaskScheduler.config
    nextNodeIndex,  \* TaskScheduler.nextNodeIndex
    taskResults,    \* TaskScheduler.taskResults: id -> outcome
    executions,     \* calls of ComputeNode.executeTask in flight, and their race
    hist,           \* per task: what has been done to it so far (observation only)
    rejections,     \* how many times a handler has rejected so far
    lastCall,       \* the last direct call on a node and what it returned
    placed,         \* the placements of the last step: what selectNode saw and chose
    comm,           \* the Communication object: its fields
    now,            \* Date.now()
    timers,         \* the interval timers setInterval has started and nobody cleared
    transmissions,  \* the messages whose transmit() awaits its network delay
    lastComm,       \* the last call on the Communication object, as its caller saw it
    registered,     \* per message type: the last two handlers handed to onMessage
    snapshot        \* the NodeInfo object a caller of getInfo holds

coreVars == <<node, task, nodes, taskQueue, config, nextNodeIndex, taskResults,
              executions, hist, rejections, lastCall, placed, snapshot>>

commVars == <<comm, now, timers, transmissions, lastComm, registered>>

vars == <<coreVars, commVars>>

schedVars == <<nodes, taskQueue, config, nextNodeIndex, taskResults, hist>>

\* ------------------------------------------------------------ ComputeNode
maxConcurrentTasks == 4

\* load is a quotient of two integers: kept as <<numerator, denominator>>, the
\* denominator being maxConcurrentTasks (0 is 0 / maxConcurrentTasks).
LoadLess(a, b) == a[1] * b[2] < b[1] * a[2]
LoadLeq(a, b) == a[1] * b[2] <= b[1] * a[2]
LoadEq(a, b) == a[1] * b[2] = b[1] * a[2]

NewNode(caps) ==
    [status |-> "idle", capabilities |-> caps, load |-> <<0, maxConcurrentTasks>>,
     tasks |-> {}]

\* canAcceptTask with the ceiling off by one.
canAcceptTaskAtCeiling(nd) ==
    nd.status # "offline" /\ Cardinality(nd.tasks) <= maxConcurrentTasks

canAcceptTask(nd) ==
    nd.status # "offline" /\ Cardinality(nd.tasks) < maxConcurrentTasks

updateLoad(nd) ==
    [nd EXCEPT !.load = <<Cardinality(nd.tasks), maxConcurrentTasks>>]

\* ComputeNode.assignTask: what it returns and the node after the call.
assignTask(nd, t) ==
    IF ~canAcceptTask(nd) THEN [returned |-> FALSE, node |-> nd]
    ELSE LET stored == updateLoad([nd EXCEPT !.tasks = @ \cup {t}])
         IN  [returned |-> TRUE,
              node |-> IF Cardinality(stored.tasks) > 0
                       THEN [stored EXCEPT !.status = "busy"]
                       ELSE stored]

\* ComputeNode.executeTask after processTask resolved (try branch).
executeTaskResolved(nd, t) ==
    LET removed == updateLoad([nd EXCEPT !.tasks = @ \ {t}])
    IN  IF Cardinality(removed.tasks) = 0
        THEN [removed EXCEPT !.status = "idle"]
        ELSE removed

\* The catch branch without its updateLoad.
executeTaskRejectedStaleLoad(nd, t) ==
    [nd EXCEPT !.tasks = @ \ {t}]

\* ComputeNode.executeTask after processTask rejected (catch branch).
executeTaskRejected(nd, t) ==
    updateLoad([nd EXCEPT !.tasks = @ \ {t}])

\* processInference, processTraining, processData: the delay each awaits.
Delay(type) ==
    CASE type = "inference" -> 100
      [] type = "training" -> 500
      [] type = "data_processing" -> 50

hasCapability(nd, c) ==
    \E i \in 1..Len(nd.capabilities) : nd.capabilities[i] = c

\* addCapability
addCapability(nd, c) ==
    IF ~hasCapability(nd, c) THEN [nd EXCEPT !.capabilities = Append(@, c)] ELSE nd

\* removeCapability: indexOf, then splice(index, 1) removes that occurrence.
removeCapability(nd, c) ==
    IF hasCapability(nd, c)
    THEN LET index == CHOOSE i \in 1..Len(nd.capabilities) :
                        /\ nd.capabilities[i] = c
                        /\ \A j \in 1..(i - 1) : nd.capabilities[j] # c
         IN  [nd EXCEPT !.capabilities =
                SubSeq(@, 1, index - 1) \o SubSeq(@, index + 1, Len(@))]
    ELSE nd

\* An array is an object: a field that holds one holds a reference to it.
\* ArrayOf(n) is the array the constructor of node n stored in
\* info.capabilities, whose elements are node[n].capabilities.
ArrayOf(n) == [array |-> n]

\* getInfo: { ...this.info } copies the value of each field of info, which for
\* capabilities is the reference to the array.
getInfo(nd, n) ==
    [status |-> nd.status, load |-> nd.load, capabilities |-> ArrayOf(n)]

NoSnapshot == [status |-> "none"]

\* ---------------------------------------------------------- TaskScheduler
Strategies == {"round-robin", "least-loaded", "random", "capability-based"}

\* JavaScript's a || b on numbers: 0 is falsy.
OrDefault(x, d) == IF x = 0 THEN d ELSE x

\* TaskScheduler constructor: the config it stores.
NewConfig(strategy, maxRetriesArg, timeoutArg) ==
    [strategy |-> strategy, maxRetries |-> OrDefault(maxRetriesArg, 3),
     timeout |-> OrDefault(timeoutArg, 30000)]

\* Map.set on the registry: a new key goes last, a known key keeps its place.
MapSet(order, k) ==
    IF \E i \in 1..Len(order) : order[i] = k THEN order ELSE Append(order, k)

\* Map.delete on the registry.
MapDelete(order, k) == SelectSeq(order, LAMBDA x : x # k)

\* Map.set on taskResults.
ResultSet(results, t, v) ==
    [x \in DOMAIN results \cup {t} |-> IF x = t THEN v ELSE results[x]]

\* Array.prototype.sort with (a, b) => b.priority - a.priority: stable,
\* descending priority.  Insert(sorted, t) puts t after every element whose
\* priority is not lower.
\* An insertion that puts t before the elements of its own priority.
RECURSIVE InsertBeforeEqual(_, _, _)
InsertBeforeEqual(sorted, t, tk) ==
    IF sorted = <<>> THEN <<t>>
    ELSE IF tk[Head(sorted)].priority > tk[t].priority
         THEN <<Head(sorted)>> \o InsertBeforeEqual(Tail(sorted), t, tk)
         ELSE <<t>> \o sorted

RECURSIVE Insert(_, _, _)
Insert(sorted, t, tk) ==
    IF sorted = <<>> THEN <<t>>
    ELSE IF tk[Head(sorted)].priority >= tk[t].priority
         THEN <<Head(sorted)>> \o Insert(Tail(sorted), t, tk)
         ELSE <<t>> \o sorted

RECURSIVE SortByPriority(_, _)
SortByPriority(queue, tk) ==
    IF queue = <<>> THEN <<>>
    ELSE Insert(SortByPriority(SubSeq(queue, 1, Len(queue) - 1), tk),
                queue[Len(queue)], tk)

\* A removal that leaves the queue as it is.
RemoveNothing(queue, t) == queue

\* Array.indexOf then splice(index, 1): removes the first occurrence.
RECURSIVE RemoveFirst(_, _)
RemoveFirst(queue, t) ==
    IF queue = <<>> THEN <<>>
    ELSE IF Head(queue) = t THEN Tail(queue)
         ELSE <<Head(queue)>> \o RemoveFirst(Tail(queue), t)

\* selectNode: the registered nodes that can accept a task, in registry order.
availableNodes(w) == SelectSeq(w.nodes, LAMBDA n : canAcceptTask(w.node[n]))

\* selectRoundRobin that ignores the cursor.
selectRoundRobinFirst(w, avail) == avail[1]

\* selectRoundRobin
selectRoundRobin(w, avail) == avail[(w.nextNodeIndex % Len(avail)) + 1]

\* selectLeastLoaded: reduce without an initial value keeps the earlier node
\* unless the later one has a strictly lower load.
\* The reduce with <= for <: the last node of minimal load wins.
RECURSIVE reduceLeastLastTie(_, _, _)
reduceLeastLastTie(w, least, rest) ==
    IF rest = <<>> THEN least
    ELSE reduceLeastLastTie(w,
                     IF LoadLeq(w.node[Head(rest)].load, w.node[least].load)
                     THEN Head(rest) ELSE least,
                     Tail(rest))

RECURSIVE reduceLeast(_, _, _)
reduceLeast(w, least, rest) ==
    IF rest = <<>> THEN least
    ELSE reduceLeast(w,
                     IF LoadLess(w.node[Head(rest)].load, w.node[least].load)
                     THEN Head(rest) ELSE least,
                     Tail(rest))

selectLeastLoaded(w, avail) == reduceLeast(w, Head(avail), Tail(avail))

\* selectByCapability that looks at the loads only.
selectByCapabilityAnyNode(w, avail, t) == selectLeastLoaded(w, avail)

\* selectByCapability that takes the first node with the capability.
selectByCapabilityFirstMatch(w, avail, t) ==
    LET capableNodes == SelectSeq(avail, LAMBDA n : hasCapability(w.node[n], TaskType(t)))
    IN  IF Len(capableNodes) = 0 THEN avail[1] ELSE capableNodes[1]

\* selectByCapability
selectByCapability(w, avail, t) ==
    LET capableNodes == SelectSeq(avail, LAMBDA n : hasCapability(w.node[n], TaskType(t)))
    IN  IF Len(capableNodes) = 0 THEN avail[1]
        ELSE selectLeastLoaded(w, capableNodes)

\* selectNode on a non-empty list of available nodes: the nodes the strategy
\* may return (Math.random makes every available node possible).
selectNode(w, avail, t) ==
    CASE w.config.strategy = "round-robin" -> {selectRoundRobin(w, avail)}
      [] w.config.strategy = "least-loaded" -> {selectLeastLoaded(w, avail)}
      [] w.config.strategy = "random" -> {avail[i] : i \in 1..Len(avail)}
      [] w.config.strategy = "capability-based" -> {selectByCapability(w, avail, t)}
      [] OTHER -> {avail[1]}

\* The execution TaskScheduler.executeTask starts: node.executeTask(task.id)
\* has read the task and awaits processTask, the timer is armed, and the race
\* is pending.
NewExecution(w, n, t) ==
    [task |-> t, no |-> w.hist[t].attempts + 1, node |-> n, supervised |-> TRUE,
     running |-> TRUE, timer |-> "armed", race |-> "pending"]

\* What selectNode saw when it chose n for t: the available nodes, their loads
\* and the cursor; and the task's priority and its place among the arrivals
\* in the queue.
Placement(w, n, t, avail) ==
    [task |-> t, node |-> n, eligible |-> avail,
     load |-> [m \in NodeIds |-> w.node[m].load], index |-> w.nextNodeIndex,
     priority |-> w.task[t].priority, entered |-> w.hist[t].entered]

\* The body of the loop of scheduleNext for a task the strategy placed on n:
\* assignTask (which returns true, n being one of avail), removal from the
\* queue, start of executeTask.
Place(w, n, t, avail) ==
    [w EXCEPT
        !.node[n] = assignTask(w.node[n], t).node,
        !.taskQueue = RemoveFirst(w.taskQueue, t),
        !.nextNodeIndex = IF w.config.strategy = "round-robin" THEN @ + 1 ELSE @,
        !.executions = @ \cup {NewExecution(w, n, t)},
        !.hist[t].attempts = @ + 1,
        !.hist[t].entered = 0,
        !.placed = Append(@, Placement(w, n, t, avail))]

\* The loop of a scheduler that raises an error to its caller when no node
\* can accept a task.
RECURSIVE scheduleLoopRaising(_, _)
scheduleLoopRaising(w, tasksToSchedule) ==
    IF tasksToSchedule = <<>> THEN {w}
    ELSE LET t == Head(tasksToSchedule)
             avail == availableNodes(w)
         IN  IF Len(avail) = 0 THEN {[w EXCEPT !.threw = TRUE]}
             ELSE UNION { scheduleLoopRaising(Place(w, n, t, avail), Tail(tasksToSchedule)) :
                          n \in selectNode(w, avail, t) }

\* The loop of scheduleNext over the snapshot of the queue: the worlds it can
\* end in.
RECURSIVE scheduleLoop(_, _)
scheduleLoop(w, tasksToSchedule) ==
    IF tasksToSchedule = <<>> THEN {w}
    ELSE LET t == Head(tasksToSchedule)
             avail == availableNodes(w)
         IN  IF Len(avail) = 0 THEN scheduleLoop(w, Tail(tasksToSchedule))
             ELSE UNION { scheduleLoop(Place(w, n, t, avail), Tail(tasksToSchedule)) :
                          n \in selectNode(w, avail, t) }

\* scheduleNext
scheduleNext(w) ==
    IF Len(w.taskQueue) = 0 THEN {w}
    ELSE LET sorted == [w EXCEPT !.taskQueue = SortByPriority(w.taskQueue, w.task)]
         IN  scheduleLoop(sorted, sorted.taskQueue)

\* The state as one record, and back.  threw says whether the synchronous call
\* being modelled has thrown to its caller; nothing in scheduleNext throws.
World ==
    [node |-> node, task |-> task, nodes |-> nodes, taskQueue |-> taskQueue,
     config |-> config, nextNodeIndex |-> nextNodeIndex,
     taskResults |-> taskResults, executions |-> executions, hist |-> hist,
     placed |-> <<>>, threw |-> FALSE]

Becomes(w) ==
    /\ node' = w.node
    /\ task' = w.task
    /\ nodes' = w.nodes
    /\ taskQueue' = w.taskQueue
    /\ config' = w.config
    /\ nextNodeIndex' = w.nextNodeIndex
    /\ taskResults' = w.taskResults
    /\ executions' = w.executions
    /\ hist' = w.hist
    /\ placed' = w.placed

NoCall == [op |-> "none"]

\* entered numbers the tasks in the queue in the order they entered it (0:
\* not in the queue).
NewHist ==
    [submitted |-> FALSE, priority |-> 0, attempts |-> 0, requeues |-> 0,
     failures |-> 0, entered |-> 0]

NextEntry(w) ==
    LET queued == {w.hist[w.taskQueue[i]].entered : i \in 1..Len(w.taskQueue)}
    IN  IF queued = {} THEN 1
        ELSE 1 + CHOOSE k \in queued : \A j \in queued : j <= k

\* The state after construction of the nodes and of the scheduler, for the
\* given constructor arguments.
InitCore(capabilityArgs, strategies, maxRetriesArgs, timeoutArgs) ==
    /\ node \in [NodeIds -> {NewNode(c) : c \in capabilityArgs}]
    /\ task = [t \in TaskIds |-> [priority |-> 0]]
    /\ nodes = <<>>
    /\ taskQueue = <<>>
    /\ config \in {NewConfig(s, m, ms) :
                        s \in strategies, m \in maxRetriesArgs, ms \in timeoutArgs}
    /\ nextNodeIndex = 0
    /\ taskResults = <<>>
    /\ executions = {}
    /\ hist = [t \in TaskIds |-> NewHist]
    /\ rejections = 0
    /\ lastCall = NoCall
    /\ placed = <<>>
    /\ snapshot = NoSnapshot

\* ---------------------------------------------------------- Communication
\* A Map whose order of entries is never read is the set of its entries, each
\* a record with its key in the field named by the Map: put replaces the
\* entry of the key.
PendingSet(pending, message) ==
    {m \in pending : m.id # message.id} \cup {message}
PendingDelete(pending, id) == {m \in pending : m.id # id}
\* A Map.set that keeps the entry a key has already.
HandlerSetKeepsFirst(handlers, type, handler) ==
    IF \E h \in handlers : h.type = type THEN handlers
    ELSE handlers \cup {[type |-> type, handler |-> handler]}
HandlerSet(handlers, type, handler) ==
    {h \in handlers : h.type # type} \cup {[type |-> type, handler |-> handler]}

\* Communication constructor
NewComm(nodeId, heartbeatIntervalArg) ==
    [nodeId |-> nodeId,
     peers |-> <<>>,
     messageHandlers |-> {},
     pendingMessages |-> {},
     config |-> [heartbeatInterval |-> OrDefault(heartbeatIntervalArg, 5000),
                 messageTimeout |-> 10000, maxRetries |-> 3],
     heartbeatTimer |-> NoTimer]

\* peers is a Map read in insertion order: the sequence of its entries.
PeerKeys(peers) == [i \in 1..Len(peers) |-> peers[i].id]
PeerIndex(peers, peerId) ==
    IF \E i \in 1..Len(peers) : peers[i].id = peerId
    THEN CHOOSE i \in 1..Len(peers) : peers[i].id = peerId
    ELSE 0

\* registerPeer: Map.set keeps the place of a known key.
registerPeer(c, peerId, time) ==
    LET entry == [id |-> peerId, lastSeen |-> time, status |-> "online"]
        at == PeerIndex(c.peers, peerId)
    IN  [c EXCEPT !.peers = IF at = 0 THEN Append(@, entry)
                            ELSE [@ EXCEPT ![at] = entry]]

\* unregisterPeer
unregisterPeer(c, peerId) ==
    [c EXCEPT !.peers = SelectSeq(@, LAMBDA e : e.id # peerId)]

\* updatePeer
updatePeer(c, peerId, time) ==
    LET at == PeerIndex(c.peers, peerId)
    IN  IF at # 0
        THEN [c EXCEPT !.peers[at].lastSeen = time, !.peers[at].status = "online"]
        ELSE registerPeer(c, peerId, time)

\* checkPeerStatus with >= for >.
checkPeerStatusAtThreshold(c, time) ==
    LET timeout == c.config.heartbeatInterval * 3
    IN  [c EXCEPT !.peers = [i \in 1..Len(c.peers) |->
            IF time - c.peers[i].lastSeen >= timeout
            THEN [c.peers[i] EXCEPT !.status = "offline"]
            ELSE c.peers[i]]]

\* checkPeerStatus that forgets the peers it finds too old.
checkPeerStatusDropping(c, time) ==
    LET timeout == c.config.heartbeatInterval * 3
    IN  [c EXCEPT !.peers = SelectSeq(@, LAMBDA e : ~(time - e.lastSeen > timeout))]

\* checkPeerStatus
checkPeerStatus(c, time) ==
    LET timeout == c.config.heartbeatInterval * 3
    IN  [c EXCEPT !.peers = [i \in 1..Len(c.peers) |->
            IF time - c.peers[i].lastSeen > timeout
            THEN [c.peers[i] EXCEPT !.status = "offline"]
            ELSE c.peers[i]]]

\* generateMessageId: node id, Date.now() and the characters Math.random()
\* gave (rand).
generateMessageId(c, time, rand) == [node |-> c.nodeId, time |-> time, rand |-> rand]

\* The Message object send builds.  obj tells apart the objects in flight
\* that carry the same id.
NewMessage(c, inFlight, to, type, time, rand) ==
    LET id == generateMessageId(c, time, rand)
        used == {m.obj : m \in {x \in inFlight : x.id = id}}
    IN  [id |-> id, type |-> type, from |-> c.nodeId, to |-> to,
         obj |-> CHOOSE k \in 1..(Cardinality(used) + 1) : k \notin used]

\* send, up to the await in transmit: the object and the messages in flight
\* after it.
send(c, inFlight, to, type, time, rand) ==
    LET message == NewMessage(c, inFlight, to, type, time, rand)
    IN  [comm |-> [c EXCEPT !.pendingMessages = PendingSet(@, message)],
         transmissions |-> inFlight \cup {message},
         message |-> message]

\* A broadcast that leaves out the peers that are offline.
broadcastToOnline(c, inFlight, time, rand) ==
    LET online == SelectSeq(c.peers, LAMBDA e : e.status = "online")
        message == NewMessage(c, inFlight, PeerKeys(online), "broadcast", time, rand)
    IN  [comm |-> c, transmissions |-> inFlight \cup {message}, message |-> message]

\* broadcast, up to the await in transmit: the message is not put in
\* pendingMessages.
broadcast(c, inFlight, time, rand) ==
    LET message == NewMessage(c, inFlight, PeerKeys(c.peers), "broadcast", time, rand)
    IN  [comm |-> c, transmissions |-> inFlight \cup {message}, message |-> message]

\* sendHeartbeat, up to the await in transmit.
sendHeartbeat(c, inFlight, time, rand) ==
    IF Len(c.peers) > 0
    THEN send(c, inFlight, PeerKeys(c.peers), "heartbeat", time, rand)
    ELSE [comm |-> c, transmissions |-> inFlight, message |-> NoMessage]

\* handleMessage: the handler of the type, if any, is called first; when it
\* throws, the rest is skipped and the promise rejects.  called: the handlers
\* it called, in order.
HandlerOf(c, type) == {h.handler : h \in {x \in c.messageHandlers : x.type = type}}
handleMessage(c, from, type, time) ==
    LET called == IF HandlerOf(c, type) = {} THEN <<>>
                  ELSE <<CHOOSE h \in HandlerOf(c, type) : TRUE>>
    IN  IF called = <<"throws">> THEN [threw |-> TRUE, comm |-> c, called |-> called]
        ELSE [threw |-> FALSE, called |-> called,
              comm |-> IF from # c.nodeId THEN updatePeer(c, from, time) ELSE c]

NoCommCall == [op |-> "none"]

InitCommWith(heartbeatIntervalArgs) ==
    /\ comm \in {NewComm(SelfId, ms) : ms \in heartbeatIntervalArgs}
    /\ now = 0
    /\ timers = {}
    /\ transmissions = {}
    /\ lastComm = NoCommCall
    /\ registered = [type \in MessageTypeValues |-> <<>>]

InitWith(capabilityArgs, strategies, maxRetriesArgs, timeoutArgs) ==
    /\ InitCore(capabilityArgs, strategies, maxRetriesArgs, timeoutArgs)
    /\ InitCommWith({0})

\* ------------------------------------------------- Communication: actions
\* start: startHeartbeat stores the handle of a new interval timer.
Start ==
    /\ Cardinality(timers) < MaxTimers
    /\ LET id == CHOOSE k \in 1..(Cardinality(timers) + 1) :
                        k \notin {t.id : t \in timers}
       IN  /\ timers' = timers \cup
                {[id |-> id, due |-> now + comm.config.heartbeatInterval]}
           /\ comm' = [comm EXCEPT !.heartbeatTimer = id]
    /\ lastComm' = [op |-> "start"]
    /\ UNCHANGED <<now, transmissions, registered, coreVars>>

\* stop
Stop ==
    /\ IF comm.heartbeatTimer # NoTimer
       THEN /\ timers' = {t \in timers : t.id # comm.heartbeatTimer}
            /\ comm' = [comm EXCEPT !.heartbeatTimer = NoTimer]
       ELSE UNCHANGED <<timers, comm>>
    /\ lastComm' = [op |-> "stop"]
    /\ UNCHANGED <<now, transmissions, registered, coreVars>>

\* The callback of setInterval: sendHeartbeat() up to its await, then
\* checkPeerStatus().
Tick(t, rand) ==
    /\ t \in timers
    /\ t.due <= now
    /\ LET sent == sendHeartbeat(comm, transmissions, now, rand)
       IN  /\ comm' = checkPeerStatus(sent.comm, now)
           /\ transmissions' = sent.transmissions
    /\ timers' = (timers \ {t}) \cup
            {[t EXCEPT !.due = @ + comm.config.heartbeatInterval]}
    /\ lastComm' = [op |-> "tick"]
    /\ UNCHANGED <<now, registered, coreVars>>

\* send(to, payload, type) by a user of the object, up to its await.
Send(to, type, rand) ==
    /\ Cardinality(transmissions) < MaxInFlight
    /\ LET sent == send(comm, transmissions, to, type, now, rand)
       IN  /\ comm' = sent.comm
           /\ transmissions' = sent.transmissions
           /\ lastComm' = [op |-> "send"]
    /\ UNCHANGED <<now, timers, registered, coreVars>>

\* broadcast(payload) by a user of the object, up to its await.
Broadcast(rand) ==
    /\ Cardinality(transmissions) < MaxInFlight
    /\ LET sent == broadcast(comm, transmissions, now, rand)
       IN  /\ comm' = sent.comm
           /\ transmissions' = sent.transmissions
           /\ lastComm' = [op |-> "broadcast"]
    /\ UNCHANGED <<now, timers, registered, coreVars>>

\* The delay of transmit is over: it removes the id from pendingMessages and
\* the promise of send resolves.
TransmitCompletes(message) ==
    /\ message \in transmissions
    /\ transmissions' = transmissions \ {message}
    /\ comm' = [comm EXCEPT !.pendingMessages = PendingDelete(@, message.id)]
    /\ lastComm' = [op |-> "transmitted"]
    /\ UNCHANGED <<now, timers, registered, coreVars>>

\* onMessage
OnMessage(type, handler) ==
    /\ comm' = [comm EXCEPT !.messageHandlers = HandlerSet(@, type, handler)]
    /\ lastComm' = [op |-> "onMessage"]
    /\ registered' = [registered EXCEPT ![type] =
            IF @ = <<>> THEN <<handler>> ELSE <<@[Len(@)], handler>>]
    /\ UNCHANGED <<now, timers, transmissions, coreVars>>

\* handleMessage(message), for a message from `from` of type `type`.
HandleMessage(from, type) ==
    /\ LET handled == handleMessage(comm, from, type, now)
       IN  /\ comm' = handled.comm
           /\ lastComm' = [op |-> "handleMessage", from |-> from, type |-> type,
                           threw |-> handled.threw, called |-> handled.called]
    /\ UNCHANGED <<now, timers, transmissions, registered, coreVars>>

\* registerPeer
RegisterPeer(peerId) ==
    /\ comm' = registerPeer(comm, peerId, now)
    /\ lastComm' = [op |-> "registerPeer", peer |-> peerId]
    /\ UNCHANGED <<now, timers, transmissions, registered, coreVars>>

\* unregisterPeer
UnregisterPeer(peerId) ==
    /\ comm' = unregisterPeer(comm, peerId)
    /\ lastComm' = [op |-> "unregisterPeer", peer |-> peerId]
    /\ UNCHANGED <<now, timers, transmissions, registered, coreVars>>

\* Time passes: no interval timer is due and every network delay of transmit
\* (under 10 ms) is over before the clock has advanced by TimeStep.
Advance ==
    /\ now + TimeStep <= MaxTime
    /\ \A t \in timers : t.due > now
    /\ transmissions = {}
    /\ now' = now + TimeStep
    /\ lastComm' = NoCommCall
    /\ UNCHANGED <<comm, timers, transmissions, registered, coreVars>>

\* ------------------------------------------------- TaskScheduler: actions
\* registerNode
RegisterNode(n) ==
    /\ nodes' = MapSet(nodes, n)
    /\ lastCall' = NoCall
    /\ placed' = <<>>
    /\ UNCHANGED <<node, task, taskQueue, config, nextNodeIndex, taskResults,
                   executions, hist, rejections>>
    /\ UNCHANGED <<commVars, snapshot>>

\* An unregisterNode that puts the tasks the node holds back in the queue.
UnregisterNodeRecovering(n) ==
    /\ nodes' = MapDelete(nodes, n)
    /\ taskQueue' = taskQueue \o
            SelectSeq([i \in 1..NumTasks |-> i], LAMBDA t : t \in node[n].tasks)
    /\ lastCall' = NoCall
    /\ placed' = <<>>
    /\ UNCHANGED <<node, task, config, nextNodeIndex, taskResults,
                   executions, hist, rejections>>
    /\ UNCHANGED <<commVars, snapshot>>

\* unregisterNode
UnregisterNode(n) ==
    /\ nodes' = MapDelete(nodes, n)
    /\ lastCall' = NoCall
    /\ placed' = <<>>
    /\ UNCHANGED <<node, task, taskQueue, config, nextNodeIndex, taskResults,
                   executions, hist, rejections>>
    /\ UNCHANGED <<commVars, snapshot>>

\* createTask(id, type, payload, priority) then taskQueue.push(task).
Push(w, t, p) ==
    [w EXCEPT !.task[t].priority = p,
              !.taskQueue = Append(@, t),
              !.hist[t].submitted = TRUE,
              !.hist[t].entered = NextEntry(w),
              !.hist[t].priority = p]

RECURSIVE PushAll(_, _, _)
PushAll(w, tasks, priority) ==
    IF tasks = <<>> THEN w
    ELSE PushAll(Push(w, Head(tasks), priority[Head(tasks)]), Tail(tasks), priority)

\* What a call of submitTask or submitTasks did, for its caller: it threw, or
\* it returned the ids.  accepting: whether some registered node could accept a
\* task when the call was made.
Submission(op, tasks, w) ==
    [op |-> op, tasks |-> tasks, threw |-> w.threw,
     returned |-> IF w.threw THEN <<>> ELSE tasks,
     accepting |-> Len(availableNodes(World)) > 0]

\* submitTask: each task is submitted once.
SubmitTask(t, p) ==
    /\ ~hist[t].submitted
    /\ \E w \in scheduleNext(Push(World, t, p)) :
            Becomes(w) /\ lastCall' = Submission("submitTask", <<t>>, w)
    /\ UNCHANGED rejections
    /\ UNCHANGED <<commVars, snapshot>>

\* submitTasks
SubmitTasks(tasks, priority) ==
    /\ \A i \in 1..Len(tasks) : ~hist[tasks[i]].submitted
    /\ \E w \in scheduleNext(PushAll(World, tasks, priority)) :
            Becomes(w) /\ lastCall' = Submission("submitTasks", tasks, w)
    /\ UNCHANGED rejections
    /\ UNCHANGED <<commVars, snapshot>>

\* The catch branch of TaskScheduler.executeTask: requeue or give up.
RetriesRemain(w, t) == w.task[t].priority > -w.config.maxRetries

Requeue(w, t) ==
    [w EXCEPT !.task[t].priority = @ - 1,
              !.taskQueue = Append(@, t),
              !.hist[t].requeues = @ + 1,
              !.hist[t].entered = NextEntry(w),
              !.hist[t].failures = @ + 1]

\* A catch branch that records the failure and requeues the task all the same.
GiveUpRequeueing(w, t) ==
    [w EXCEPT !.taskResults = ResultSet(@, t, "Max retries exceeded"),
              !.taskQueue = Append(@, t),
              !.hist[t].failures = @ + 1]

GiveUp(w, t) ==
    [w EXCEPT !.taskResults = ResultSet(@, t, "Max retries exceeded"),
              !.hist[t].failures = @ + 1]

\* TaskScheduler.executeTask after the await, when the race has just been
\* settled as outcome by the promise that settled first.  The handlers of the
\* modelled task types await a timer, so the promise chain from the timer
\* callback to the end of executeTask runs as microtasks of one callback.
AfterRace(w, t, outcome) ==
    IF outcome = "fulfilled"
    THEN scheduleNext([w EXCEPT !.taskResults = ResultSet(@, t, "result")])
    ELSE IF RetriesRemain(w, t)
         THEN scheduleNext(Requeue(w, t))
         ELSE {GiveUp(w, t)}

\* A race that lets the promise that settles second through as well.
RaceSettlesAgain(w, e, outcome) ==
    IF e.supervised THEN AfterRace(w, e.task, outcome) ELSE {w}

\* Promise.race: a settled race ignores the promise that settles second.
RaceSettles(w, e, outcome) ==
    IF e.supervised /\ e.race = "pending" THEN AfterRace(w, e.task, outcome) ELSE {w}

RaceAfter(e, outcome) ==
    IF e.supervised /\ e.race = "pending" THEN outcome ELSE e.race

\* TaskScheduler.executeTask arms the handler's timer (in node.executeTask) and
\* then the timeout's, in one synchronous block: the timeout fires first iff it
\* is the shorter of the two.
TimerFirst(w, e) == w.config.timeout < Delay(TaskType(e.task))

\* An execution is forgotten once its handler has settled and its timer fired.
Live(es) == {e \in es : e.running \/ e.timer = "armed"}

\* processTask of a running execution settles (ok: resolved, else rejected):
\* the rest of ComputeNode.executeTask runs, its promise settles, and the race
\* that awaits it settles with it.
ExecutionSettles(e, ok) ==
    /\ e \in executions
    /\ e.running
    /\ (e.supervised /\ e.timer = "armed") => ~TimerFirst(World, e)
    /\ ~ok => rejections < MaxRejections
    /\ rejections' = IF ok THEN rejections ELSE rejections + 1
    /\ LET outcome == IF ok THEN "fulfilled" ELSE "rejected"
           settled == [World EXCEPT
               !.node[e.node] = IF ok THEN executeTaskResolved(@, e.task)
                                ELSE executeTaskRejected(@, e.task),
               !.executions = Live((@ \ {e}) \cup
                   {[e EXCEPT !.running = FALSE, !.race = RaceAfter(e, outcome)]})]
       IN  \E w \in RaceSettles(settled, e, outcome) : Becomes(w)
    /\ lastCall' = NoCall
    /\ UNCHANGED <<commVars, snapshot>>

\* The timer of TaskScheduler.timeout fires and rejects its promise.
TimerFires(e) ==
    /\ e \in executions
    /\ e.timer = "armed"
    /\ e.running => TimerFirst(World, e)
    /\ LET fired == [World EXCEPT
               !.executions = Live((@ \ {e}) \cup
                   {[e EXCEPT !.timer = "fired", !.race = RaceAfter(e, "rejected")]})]
       IN  \E w \in RaceSettles(fired, e, "rejected") : Becomes(w)
    /\ lastCall' = NoCall
    /\ UNCHANGED rejections
    /\ UNCHANGED <<commVars, snapshot>>

\* clearResults
ClearResults ==
    /\ taskResults' = <<>>
    /\ lastCall' = [op |-> "clearResults"]
    /\ placed' = <<>>
    /\ UNCHANGED <<node, task, nodes, taskQueue, config, nextNodeIndex,
                   executions, hist, rejections>>
    /\ UNCHANGED <<commVars, snapshot>>

\* ComputeNode.setStatus, called by the owner of the node.
SetStatus(n, s) ==
    /\ node' = [node EXCEPT ![n].status = s]
    /\ lastCall' = NoCall
    /\ placed' = <<>>
    /\ UNCHANGED <<task, executions, rejections>>
    /\ UNCHANGED schedVars
    /\ UNCHANGED <<commVars, snapshot>>

\* --------------------------------------------- ComputeNode: direct calls
\* node.assignTask(task) by a caller that holds the node and the task.
AssignTask(n, t) ==
    /\ ~hist[t].submitted
    /\ node' = [node EXCEPT ![n] = assignTask(@, t).node]
    /\ lastCall' = [op |-> "assignTask", node |-> n, task |-> t,
                    returned |-> assignTask(node[n], t).returned, before |-> node[n]]
    /\ placed' = <<>>
    /\ UNCHANGED <<task, executions, rejections>>
    /\ UNCHANGED schedVars
    /\ UNCHANGED <<commVars, snapshot>>

\* node.executeTask(taskId) by such a caller, up to its await: the task is
\* looked up and processTask started.  (An unknown id throws and changes
\* nothing.)
ExecuteTask(n, t) ==
    /\ t \in node[n].tasks
    /\ ~\E e \in executions : e.node = n /\ e.task = t
    /\ executions' = executions \cup
            {[task |-> t, no |-> 0, node |-> n, supervised |-> FALSE,
              running |-> TRUE, timer |-> "none", race |-> "none"]}
    /\ lastCall' = NoCall
    /\ placed' = <<>>
    /\ UNCHANGED <<node, task, rejections>>
    /\ UNCHANGED schedVars
    /\ UNCHANGED <<commVars, snapshot>>

\* node.getInfo() by such a caller, who keeps the object returned.
GetInfo(n) ==
    /\ snapshot' = getInfo(node[n], n)
    /\ lastCall' = [op |-> "getInfo"]
    /\ placed' = <<>>
    /\ UNCHANGED <<node, task, executions, rejections, schedVars, commVars>>

\* The caller assigns to the status field of the object returned.
SnapshotSetStatus(s) ==
    /\ snapshot # NoSnapshot
    /\ snapshot' = [snapshot EXCEPT !.status = s]
    /\ lastCall' = [op |-> "mutateSnapshot"]
    /\ placed' = <<>>
    /\ UNCHANGED <<node, task, executions, rejections, schedVars, commVars>>

\* The caller pushes onto the capabilities array of the object returned.
SnapshotPushCapability(c) ==
    /\ snapshot # NoSnapshot
    /\ LET n == snapshot.capabilities.array
       IN  /\ Len(node[n].capabilities) < MaxCapabilities
           /\ node' = [node EXCEPT ![n].capabilities = Append(@, c)]
    /\ lastCall' = [op |-> "mutateSnapshot"]
    /\ placed' = <<>>
    /\ UNCHANGED <<snapshot, task, executions, rejections, schedVars, commVars>>

\* node.addCapability(capability)
AddCapability(n, c) ==
    /\ node' = [node EXCEPT ![n] = addCapability(@, c)]
    /\ lastCall' = [op |-> "addCapability"]
    /\ placed' = <<>>
    /\ UNCHANGED <<snapshot, task, executions, rejections, schedVars, commVars>>

\* node.removeCapability(capability)
RemoveCapability(n, c) ==
    /\ node' = [node EXCEPT ![n] = removeCapability(@, c)]
    /\ lastCall' = [op |-> "removeCapability"]
    /\ placed' = <<>>
    /\ UNCHANGED <<snapshot, task, executions, rejections, schedVars, commVars>>

\* ------------------------------------------------------- specifications
Statuses == {"idle", "busy", "offline"}

Settles == \E e \in executions, ok \in BOOLEAN : ExecutionSettles(e, ok)
Fires == \E e \in executions : TimerFires(e)

\* The scheduler with its nodes: registration, submission, the executions and
\* their timers.
Init == InitWith({<<>>}, Strategies, {1}, TimeoutArgs)

Next ==
    \/ \E n \in NodeIds : RegisterNode(n)
    \/ \E n \in NodeIds : UnregisterNode(n)
    \/ \E t \in SubmittedIds, p \in Priorities : SubmitTask(t, p)
    \/ \E b \in Batches, p \in [SubmittedIds -> Priorities] : SubmitTasks(b, p)
    \/ Settles
    \/ Fires

Spec == Init /\ [][Next]_vars

\* The same with fair timers: a timer that is due fires.
SpecFair == Spec /\ WF_vars(Settles) /\ WF_vars(Fires)

\* The capability-based scheduler over nodes of different capabilities, whose
\* owners take them offline and back.
InitCapability == InitWith(CapabilityArgs, {"capability-based"}, {1}, {200})

NextCapability ==
    \/ \E n \in NodeIds : RegisterNode(n)
    \/ \E t \in SubmittedIds, p \in Priorities : SubmitTask(t, p)
    \/ Settles
    \/ Fires
    \/ \E n \in NodeIds, s \in {"idle", "offline"} : SetStatus(n, s)

SpecCapability == InitCapability /\ [][NextCapability]_vars

\* The scheduler given tasks whose handler (500 ms) outlasts the timeout
\* (200 ms).
TrainingIds == {t \in TaskIds : TaskType(t) = "training"}

InitCeiling == InitWith({<<>>}, {"least-loaded"}, {1}, {200})

NextCeiling ==
    \/ \E n \in NodeIds : RegisterNode(n)
    \/ \E t \in TrainingIds, p \in Priorities : SubmitTask(t, p)
    \/ Settles
    \/ Fires

SpecCeiling == InitCeiling /\ [][NextCeiling]_vars

\* The scheduler over one node that a direct caller fills with tasks of its
\* own, so that a pass finds room for some of the queued tasks only.
DirectIds == TaskIds \ SubmittedIds

InitOrder == InitWith({<<>>}, {"least-loaded"}, {1}, {0})

NextOrder ==
    \/ RegisterNode(DirectNode)
    \/ \E t \in DirectIds : AssignTask(DirectNode, t)
    \/ \E t \in SubmittedIds, p \in Priorities : SubmitTask(t, p)
    \/ \E b \in Batches, p \in [SubmittedIds -> Priorities] : SubmitTasks(b, p)
    \/ Settles
    \/ Fires

SpecOrder == InitOrder /\ [][NextOrder]_vars

\* The scheduler whose user clears the result table now and then.
InitResults == InitWith({<<>>}, {"least-loaded"}, {1}, TimeoutArgs)

NextResults ==
    \/ \E n \in NodeIds : RegisterNode(n)
    \/ \E t \in SubmittedIds, p \in Priorities : SubmitTask(t, p)
    \/ Settles
    \/ Fires
    \/ ClearResults

SpecResults == InitResults /\ [][NextResults]_vars

\* One node used directly, without a scheduler.
InitNode == InitWith({<<>>}, {"least-loaded"}, {1}, {0})

NextNode ==
    \/ \E t \in TaskIds : AssignTask(DirectNode, t)
    \/ \E t \in TaskIds : ExecuteTask(DirectNode, t)
    \/ Settles
    \/ \E s \in Statuses : SetStatus(DirectNode, s)

SpecNode == InitNode /\ [][NextNode]_vars

\* One node whose owner reads its info and changes its capabilities.
InitInfo ==
    /\ InitCore(InfoCapabilityArgs, {"least-loaded"}, {1}, {0})
    /\ InitCommWith({0})

NextInfo ==
    \/ GetInfo(DirectNode)
    \/ \E s \in Statuses : SnapshotSetStatus(s)
    \/ \E c \in Capabilities : SnapshotPushCapability(c)
    \/ \E c \in Capabilities : AddCapability(DirectNode, c)
    \/ \E c \in Capabilities : RemoveCapability(DirectNode, c)
    \/ \E s \in Statuses : SetStatus(DirectNode, s)
    \/ \E t \in SubmittedIds : AssignTask(DirectNode, t)
    \/ \E t \in SubmittedIds : ExecuteTask(DirectNode, t)
    \/ Settles

SpecInfo == InitInfo /\ [][NextInfo]_vars

\* The Communication object alone, with its timers and the clock.
InitComm ==
    /\ InitCore({<<>>}, {"least-loaded"}, {1}, {0})
    /\ InitCommWith(HeartbeatIntervalArgs)

NextComm ==
    \/ Start
    \/ Stop
    \/ \E t \in timers, r \in RandomChars : Tick(t, r)
    \/ \E m \in transmissions : TransmitCompletes(m)
    \/ \E ty \in MessageTypes, h \in HandlerArgs : OnMessage(ty, h)
    \/ \E p \in PeerIds \cup {SelfId}, ty \in MessageTypes : HandleMessage(p, ty)
    \/ \E p \in PeerIds : RegisterPeer(p)
    \/ \E p \in PeerIds : UnregisterPeer(p)
    \/ Advance

SpecComm == InitComm /\ [][NextComm]_vars

\* The Communication object used to send: its users' messages and its own
\* heartbeats.
NextSend ==
    \/ \E p \in PeerIds, r \in RandomChars : Send(p, "request", r)
    \/ \E m \in transmissions : TransmitCompletes(m)
    \/ \E p \in PeerIds : RegisterPeer(p)
    \/ Start
    \/ \E t \in timers, r \in RandomChars : Tick(t, r)
    \/ Advance

SpecSend == InitComm /\ [][NextSend]_vars

\* The Communication object used to broadcast to peers that come, go and age.
NextBroadcast ==
    \/ \E r \in RandomChars : Broadcast(r)
    \/ \E m \in transmissions : TransmitCompletes(m)
    \/ \E p \in PeerIds : RegisterPeer(p)
    \/ \E p \in PeerIds : UnregisterPeer(p)
    \/ Start
    \/ \E t \in timers, r \in RandomChars : Tick(t, r)
    \/ Advance

SpecBroadcast == InitComm /\ [][NextBroadcast]_vars

\* The Communication object and its handlers, for two message types.
NextHandlers ==
    \/ \E ty \in HandledTypes, h \in HandlerArgs : OnMessage(ty, h)
    \/ \E p \in PeerIds \cup {SelfId}, ty \in HandledTypes : HandleMessage(p, ty)
    \/ \E p \in PeerIds : UnregisterPeer(p)
    \/ Advance

SpecHandlers == InitComm /\ [][NextHandlers]_vars

\* ------------------------------------------------------------ properties
Range(seq) == {seq[i] : i \in 1..Len(seq)}
Holders(t) == {n \in NodeIds : t \in node[n].tasks}
Queued(t) == t \in Range(taskQueue)
HasResult(t) == t \in DOMAIN taskResults
FailedFinal(t) == HasResult(t) /\ taskResults[t] = "Max retries exceeded"
SameCall(e, f) == e.task = f.task /\ e.no = f.no /\ e.node = f.node
\* The handler of execution e settles in this step.
HandlerSettles(e) ==
    e.running /\ ~\E f \in executions' : SameCall(e, f) /\ f.running
\* A promise of the race of execution e settles in this step.
PromiseSettles(e) == e.supervised /\ e \notin executions'
\* How many outcomes the scheduler applies for task t in this step: a result
\* recorded (success or Failed-Final) or a requeue.
OutcomesApplied(t) ==
    (IF HasResult(t)' /\ ~HasResult(t) THEN 1 ELSE 0)
        + (hist'[t].requeues - hist[t].requeues)

\* C1: every task id is in the active task set of at most one node at a time.
C1_ExclusiveOwnership ==
    \A t \in TaskIds : Cardinality(Holders(t)) <= 1

\* C2: a task is requeued at most maxRetries times, and its failure number
\* maxRetries + 1 records Failed-Final instead of requeueing it.
C2_BoundedRetry ==
    \A t \in TaskIds :
        /\ hist[t].requeues <= config.maxRetries
        /\ hist[t].failures >= config.maxRetries + 1 => FailedFinal(t)

\* C3: a queued task does not stay queued for ever beside a registered node
\* that can accept a task: it is eventually assigned (or no node can accept
\* any more), without any further submission.
SomeNodeAccepts == \E n \in Range(nodes) : canAcceptTask(node[n])
C3_EventualAssignment ==
    \A t \in SubmittedIds :
        (Queued(t) /\ SomeNodeAccepts) ~> (~Queued(t) \/ ~SomeNodeAccepts)

\* C4: the priority of a task stays what it was at submission, whatever the
\* number of failed executions and requeues.
C4_PriorityUntouched ==
    \A t \in TaskIds : hist[t].submitted => task[t].priority = hist[t].priority

\* C5: for each execution attempt exactly one outcome is applied, by the promise
\* that settles first; the promise that settles second changes neither the
\* result table, the queue, the task nor its retry accounting.
C5_OneOutcomePerAttempt ==
    [][\A e \in executions : PromiseSettles(e) =>
            IF e.race = "pending"
            THEN OutcomesApplied(e.task) = 1
            ELSE /\ OutcomesApplied(e.task) = 0
                 /\ UNCHANGED <<taskResults, taskQueue, task, hist>>]_vars

\* Both kinds of second settlement have happened: task 1 succeeded and the timer
\* of its race fired afterwards; every execution of task 2 timed out and its
\* handler settled afterwards.
C5_Witness ==
    /\ config.timeout = 200
    /\ HasResult(1) /\ taskResults[1] = "result"
    /\ FailedFinal(2)
    /\ hist[2].attempts >= 2
    /\ executions = {}

\* C6: once executeTask settles, by success or by failure of the handler, the
\* task is out of the active set, load is recomputed, and an empty active set
\* means status idle.
C6_ExecuteReleasesSlot ==
    [][\A e \in executions : HandlerSettles(e) =>
            LET nd == node'[e.node]
            IN  /\ e.task \notin nd.tasks
                /\ LoadEq(nd.load, <<Cardinality(nd.tasks), maxConcurrentTasks>>)
                /\ nd.tasks = {} => nd.status = "idle"]_vars

\* C7: load is the number of active tasks over the ceiling, the number of
\* active tasks is at most the ceiling, and load is in [0, 1].
C7_LoadInvariant ==
    \A n \in NodeIds :
        /\ LoadEq(node[n].load, <<Cardinality(node[n].tasks), maxConcurrentTasks>>)
        /\ Cardinality(node[n].tasks) <= maxConcurrentTasks
        /\ LoadLeq(<<0, 1>>, node[n].load) /\ LoadLeq(node[n].load, <<1, 1>>)

\* A node that was full, emptied by handlers that resolved and rejected, and
\* took a task again.
C7_Witness ==
    /\ rejections > 0
    /\ lastCall.op = "assignTask" /\ lastCall.returned
    /\ Cardinality(node[DirectNode].tasks) = maxConcurrentTasks

\* C8: status is busy if and only if the active task set is non-empty.
C8_StatusInvariant ==
    \A n \in NodeIds : node[n].status = "busy" <=> node[n].tasks # {}

\* C9: assignTask returns true iff the node is not offline and holds fewer
\* tasks than the ceiling; on false the node is unchanged; on true the task is
\* in the active set and status is busy.
C9_AssignTaskAccepts ==
    lastCall.op = "assignTask" =>
        LET before == lastCall.before
            after == node[lastCall.node]
        IN  /\ lastCall.returned <=>
                    (before.status # "offline"
                        /\ Cardinality(before.tasks) < maxConcurrentTasks)
            /\ ~lastCall.returned => after = before
            /\ lastCall.returned =>
                    (lastCall.task \in after.tasks /\ after.status = "busy")

\* A node that is not offline and holds 4 tasks refused a fifth and kept load 1.
C9_Witness ==
    /\ lastCall.op = "assignTask" /\ ~lastCall.returned
    /\ lastCall.before.status # "offline"
    /\ lastCall.task \notin lastCall.before.tasks
    /\ Cardinality(node[lastCall.node].tasks) = maxConcurrentTasks
    /\ LoadEq(node[lastCall.node].load, <<1, 1>>)

Capable(p) == {n \in Range(p.eligible) : hasCapability(node[n], TaskType(p.task))}

RECURSIVE SumAttempts(_)
SumAttempts(S) ==
    IF S = {} THEN 0
    ELSE LET t == CHOOSE x \in S : TRUE
         IN  hist[t].attempts + SumAttempts(S \ {t})
Selections == SumAttempts(TaskIds)

\* C11: under round-robin the cursor is the number of selections made so far
\* (it grows by 1 per selection and nothing else changes it), and selection
\* number k returns eligible[k mod n], eligible being the nodes that can accept
\* a task at that call, in registry order.
C11_RoundRobinOrder ==
    config.strategy = "round-robin" =>
        /\ nextNodeIndex = Selections
        /\ \A i \in 1..Len(placed) :
            LET p == placed[i]
                k == Selections - Len(placed) + i - 1
            IN  /\ p.index = k
                /\ p.eligible = SelectSeq(nodes, LAMBDA n : n \in Range(p.eligible))
                /\ p.node = p.eligible[(k % Len(p.eligible)) + 1]

\* Nodes 1 then 2 are registered and two tasks submitted: the first selection
\* took node 1 and the second, just made, took node 2.
C11_Witness ==
    /\ config.strategy = "round-robin"
    /\ nodes = <<1, 2>>
    /\ nextNodeIndex = 2
    /\ \E t \in SubmittedIds : Holders(t) = {1}
    /\ Len(placed) = 1
    /\ placed[1].index = 1 /\ placed[1].eligible = <<1, 2>> /\ placed[1].node = 2


\* Position of node n in the list of nodes seq.
IndexOf(seq, n) == CHOOSE i \in 1..Len(seq) : seq[i] = n

\* C12: under least-loaded, when a task is assigned the load of the chosen node
\* is at most the load of every node that could accept a task, and every
\* such node earlier in registry order has a strictly higher load.
C12_LeastLoadedPlacement ==
    config.strategy = "least-loaded" =>
        \A i \in 1..Len(placed) :
            LET p == placed[i]
                at == IndexOf(p.eligible, p.node)
            IN  /\ p.node \in Range(p.eligible)
                /\ \A j \in 1..Len(p.eligible) :
                        LoadLeq(p.load[p.node], p.load[p.eligible[j]])
                /\ \A j \in 1..(at - 1) :
                        LoadLess(p.load[p.node], p.load[p.eligible[j]])

\* The second of two nodes that could accept the task was chosen for its
\* strictly lower load, though it held a task already.
C12_Witness ==
    /\ config.strategy = "least-loaded"
    /\ \E i \in 1..Len(placed) :
        LET p == placed[i]
        IN  /\ Len(p.eligible) = 2
            /\ p.node = p.eligible[2]
            /\ LoadLess(p.load[p.node], p.load[p.eligible[1]])
            /\ LoadLess(<<0, 1>>, p.load[p.node])


\* C13: submitTask and submitTasks return the submitted ids and never throw;
\* a task no node can accept stays in the queue, and at the return every
\* submitted task is queued or assigned, with no result recorded yet (outcomes
\* come later, through the result table).
C13_SubmissionNeverThrows ==
    lastCall.op \in {"submitTask", "submitTasks"} =>
        /\ ~lastCall.threw
        /\ lastCall.returned = lastCall.tasks
        /\ \A i \in 1..Len(lastCall.tasks) :
            LET t == lastCall.tasks[i]
            IN  /\ ~lastCall.accepting => Queued(t) /\ Holders(t) = {}
                /\ Queued(t) \/ Holders(t) # {}
                /\ ~HasResult(t)

\* submitTasks returned both ids although no node could accept a task: both
\* tasks are queued.
C13_Witness ==
    /\ lastCall.op = "submitTasks"
    /\ ~lastCall.accepting
    /\ Len(lastCall.returned) = 2
    /\ \A i \in 1..2 : Queued(lastCall.returned[i])


\* The record of peer peerId in a peer table, as a set (empty: unknown peer).
PeerRecord(peers, peerId) == {peers[i] : i \in {j \in 1..Len(peers) : peers[j].id = peerId}}
AgedOut(peer, time) == time - peer.lastSeen > 3 * comm.config.heartbeatInterval

\* C14: a heartbeat scan leaves a peer offline if and only if now - lastSeen
\* is strictly greater than 3 * heartbeatInterval at the scan, and no other
\* step makes a peer offline.
C14_HeartbeatAging ==
    [][\A i \in 1..Len(comm'.peers) :
        LET peer == comm'.peers[i]
        IN  IF lastComm'.op = "tick"
            THEN /\ Len(comm.peers) = Len(comm'.peers)
                 /\ peer.status = "offline" <=> AgedOut(comm.peers[i], now)
            ELSE peer.status = "offline" =>
                    \E old \in PeerRecord(comm.peers, peer.id) : old.status = "offline"]_vars

\* heartbeatInterval is 100 and a peer was last seen at 0: after the scan at
\* 400 the peer is offline, while a peer last seen at 100 is still online, 300
\* not being greater than 300.
C14_Witness ==
    /\ comm.config.heartbeatInterval = 100
    /\ now = 400
    /\ lastComm.op = "tick"
    /\ \E old \in PeerRecord(comm.peers, "p1") : old.lastSeen = 0 /\ old.status = "offline"
    /\ \E rec \in PeerRecord(comm.peers, "p2") : rec.lastSeen = 100 /\ rec.status = "online"

\* Peer peerId is known, online and was last seen now.
SeenNow(peerId) ==
    \E rec \in PeerRecord(comm.peers, peerId) : rec.status = "online" /\ rec.lastSeen = now

\* C15: handleMessage from another node, and registerPeer, leave the peer
\* online with lastSeen = now, whatever it was before; handleMessage from the
\* own node id changes no peer record.
C15_ContactMakesOnline ==
    /\ lastComm.op = "handleMessage" /\ lastComm.from # comm.nodeId => SeenNow(lastComm.from)
    /\ lastComm.op = "handleMessage" /\ lastComm.from = comm.nodeId =>
            PeerRecord(comm.peers, comm.nodeId) = {}
    /\ lastComm.op = "registerPeer" => SeenNow(lastComm.peer)

\* C16: at most one heartbeat timer is active, none once stop() was the last
\* of the start() and stop() calls, so no tick fires after the last stop().
C16_HeartbeatLifecycle ==
    /\ Cardinality(timers) <= 1
    /\ comm.heartbeatTimer = NoTimer => timers = {}
    /\ lastComm.op = "tick" => comm.heartbeatTimer # NoTimer

\* C19: the pending set holds exactly the messages whose transport has not
\* completed: each from the start of its send until its transmit is over, and
\* nothing once every send has settled.
C19_PendingUntilTransmitted ==
    comm.pendingMessages = transmissions


\* What a reader of the object getInfo returned sees in it.
SnapshotValue ==
    [status |-> snapshot.status, load |-> snapshot.load,
     capabilities |-> node[snapshot.capabilities.array].capabilities]

\* C17: mutating the value getInfo returned never changes the node, and later
\* operations on the node never change the value returned earlier.
C17_IndependentSnapshot ==
    [][snapshot # NoSnapshot =>
        /\ lastCall'.op = "mutateSnapshot" => node' = node
        /\ lastCall'.op \notin {"mutateSnapshot", "getInfo"} =>
                SnapshotValue' = SnapshotValue]_vars

\* C20: on every node, addCapability(c) twice is addCapability(c) once and
\* hasCapability(c) is then true; removeCapability(c) twice is
\* removeCapability(c) once and hasCapability(c) is false after one.
C20_IdempotentCapabilities ==
    \A n \in NodeIds, c \in Capabilities :
        LET added == addCapability(node[n], c)
            removed == removeCapability(node[n], c)
        IN  /\ addCapability(added, c) = added
            /\ hasCapability(added, c)
            /\ removeCapability(removed, c) = removed
            /\ ~hasCapability(removed, c)


\* Task t is requeued, or assigned to a node, in this step.
Requeued(t) == hist'[t].requeues > hist[t].requeues
Assigned(t) == hist'[t].attempts > hist[t].attempts
\* This step removes a node from the registry.
Unregisters == Len(nodes') < Len(nodes)
UnregisterFrame ==
    Unregisters =>
        UNCHANGED <<node, task, taskQueue, config, nextNodeIndex, taskResults,
                    executions, hist>>

\* C18 as stated: a task held by a node that is no longer registered is never
\* requeued or assigned again, and unregisterNode changes only the registry.
C18_OrphanedNeverRetried ==
    [][/\ UnregisterFrame
       /\ \A t \in TaskIds :
            Requeued(t) \/ Assigned(t) => \A n \in Holders(t) : n \in Range(nodes)]_vars

\* C18 as amended: unregisterNode changes only the registry; the executions in
\* flight on the node stay supervised, so the first outcome of each is applied
\* as for a registered node, and a task is requeued only by the failure or the
\* timeout of one of its own executions.
C18_UnregisterChangesRegistryOnly ==
    [][/\ UnregisterFrame
       /\ \A e \in executions :
            e.node \notin Range(nodes) /\ PromiseSettles(e) /\ e.race = "pending" =>
                OutcomesApplied(e.task) = 1
       /\ \A t \in TaskIds :
            Requeued(t) => \E e \in executions :
                e.task = t /\ PromiseSettles(e) /\ e.race = "pending"]_vars

\* A task held by a node that is not registered any more has been requeued
\* and has just been assigned to another node.
C18_Witness ==
    \E t \in SubmittedIds, n \in NodeIds :
        /\ n \in Holders(t) /\ n \notin Range(nodes)
        /\ hist[t].requeues >= 1
        /\ \E i \in 1..Len(placed) : placed[i].task = t /\ placed[i].node # n

\* C21: handleMessage calls exactly one handler, once: the one most recently
\* handed to onMessage for the type of the message; it calls none when none
\* was registered for that type, and never one registered for another type
\* only.
C21_OneHandlerPerType ==
    lastComm.op = "handleMessage" =>
        LET history == registered[lastComm.type]
        IN  lastComm.called =
                IF history = <<>> THEN <<>> ELSE <<history[Len(history)]>>

\* Two handlers were registered for "request", the later replacing the
\* earlier, and another for "response": a request has just been handled by
\* the later one alone.
C21_Witness ==
    /\ lastComm.op = "handleMessage" /\ lastComm.type = "request"
    /\ registered["request"] = <<"throws", "returns">>
    /\ registered["response"] = <<"throws">>
    /\ lastComm.called = <<"returns">>
\* C22: broadcast transmits exactly one message, of type broadcast and from
\* the own node id, whose recipient list is exactly the peers registered at
\* the call, online and offline alike, and it changes no peer record.
C22_BroadcastToAllPeers ==
    [][lastComm'.op = "broadcast" =>
        LET started == transmissions' \ transmissions
            known == {comm.peers[i].id : i \in 1..Len(comm.peers)}
        IN  /\ transmissions \subseteq transmissions'
            /\ Cardinality(started) = 1
            /\ \A m \in started :
                    /\ m.type = "broadcast"
                    /\ m.from = comm.nodeId
                    /\ Range(m.to) = known
                    /\ Len(m.to) = Cardinality(known)
            /\ comm'.peers = comm.peers]_vars

\* A broadcast has just been addressed to p1 and p2, one of them offline.
C22_Witness ==
    /\ lastComm.op = "broadcast"
    /\ \E m \in transmissions : m.type = "broadcast" /\ Range(m.to) = {"p1", "p2"}
    /\ \E i \in 1..Len(comm.peers) : comm.peers[i].status = "offline"
    /\ \E i \in 1..Len(comm.peers) : comm.peers[i].status = "online"
\* The calls of executeTask on node n that have started and not settled.
InFlight(n) == {e \in executions : e.node = n /\ e.running}

\* C23: at any time at most maxConcurrentTasks executions are in flight on one
\* node, counting those whose scheduler-side timeout has fired already.
C23_ConcurrencyCeiling ==
    \A n \in NodeIds : Cardinality(InFlight(n)) <= maxConcurrentTasks
\* The tasks the last scheduling pass placed, in the order it placed them,
\* then the tasks it left in the queue: of each, its priority at the pass and
\* its place among the arrivals in the queue.
PassOrder ==
    [i \in 1..Len(placed) |-> <<placed[i].priority, placed[i].entered>>]
        \o [j \in 1..Len(taskQueue) |->
                <<task[taskQueue[j]].priority, hist[taskQueue[j]].entered>>]
Precedes(a, b) == a[1] > b[1] \/ (a[1] = b[1] /\ a[2] < b[2])

\* C24: a scheduling pass takes the queued tasks by descending priority, tasks
\* of equal priority in the order they entered the queue; every task it
\* assigns precedes, in this order, every task it leaves queued.
C24_PassOrder ==
    \A i, j \in 1..Len(PassOrder) : i < j => Precedes(PassOrder[i], PassOrder[j])

\* The pass placed a task of priority 1 and left in the queue a task of
\* priority 0 that had entered the queue before it.
C24_Witness ==
    /\ Len(placed) = 1 /\ Len(taskQueue) = 1
    /\ placed[1].priority = 1 /\ task[taskQueue[1]].priority = 0
    /\ hist[taskQueue[1]].entered < placed[1].entered
    /\ Cardinality(node[placed[1].node].tasks) = maxConcurrentTasks
\* C25: under capability-based selection, among the nodes that can accept a
\* task (taken in registry order), if some have task.type among their
\* capabilities the node chosen is one of them and no other of them has a
\* lower load; if none has, the node chosen is the first that can accept a
\* task, whatever its load.
C25_CapabilitySelectionRule ==
    config.strategy = "capability-based" =>
        \A i \in 1..Len(placed) :
            LET p == placed[i]
                matches == Capable(p)
            IN  /\ p.eligible = SelectSeq(nodes, LAMBDA n : n \in Range(p.eligible))
                /\ IF matches # {}
                   THEN /\ p.node \in matches
                        /\ \A m \in matches : LoadLeq(p.load[p.node], p.load[m])
                   ELSE p.node = p.eligible[1]

\* Both rules have been applied: a task is held by a node without the
\* capability for it, where the fallback put it; and of two nodes with the
\* capability the second has just been chosen, its load being the lower.
C25_Witness ==
    /\ config.strategy = "capability-based"
    /\ \E i \in 1..Len(placed) :
        LET p == placed[i]
        IN  /\ Len(p.eligible) = 2 /\ Capable(p) = Range(p.eligible)
            /\ p.node = p.eligible[2]
            /\ LoadLess(p.load[p.node], p.load[p.eligible[1]])
    /\ \E t \in SubmittedIds :
            \E n \in Holders(t) : ~hasCapability(node[n], TaskType(t))
\* The race of an execution attempt of task t is pending: the scheduler
\* supervises an attempt that has not settled.
Supervised(t) ==
    \E e \in executions : e.task = t /\ e.supervised /\ e.race = "pending"

\* isComplete(t)
isComplete(t) == HasResult(t)

\* Where task t is in its life.  Assigned and Executing are one state here:
\* scheduleNext calls assignTask and executeTask in one synchronous block.
\* "cleared": the task was terminal and its result has been cleared.
Phase(t) ==
    CASE isComplete(t) /\ taskResults[t] = "result" -> "Completed"
      [] isComplete(t) /\ taskResults[t] # "result" -> "Failed-Final"
      [] ~isComplete(t) /\ Supervised(t) -> "Executing"
      [] ~isComplete(t) /\ ~Supervised(t) /\ Queued(t) -> "Pending"
      [] ~isComplete(t) /\ ~Supervised(t) /\ ~Queued(t) /\ ~hist[t].submitted -> "new"
      [] OTHER -> "cleared"

\* The moves of the task state machine.  A task goes from new or Executing
\* straight to Executing when the pass that ends the step places it at once.
Moves ==
    {<<"new", "Pending">>, <<"new", "Executing">>,
     <<"Pending", "Executing">>,
     <<"Executing", "Completed">>, <<"Executing", "Pending">>,
     <<"Executing", "Executing">>, <<"Executing", "Failed-Final">>}

Terminal(t) == Phase(t) \in {"Completed", "Failed-Final"}

\* Task t stays as it is, or makes one of the moves; and a complete task is
\* neither queued nor under a supervised attempt.
FollowsStateMachine(t) ==
    /\ Phase(t)' = Phase(t) \/ <<Phase(t), Phase(t)'>> \in Moves
    /\ isComplete(t)' => ~Queued(t)' /\ ~Supervised(t)'
    /\ Phase(t) = "Executing" /\ Phase(t)' = "Executing" /\ Assigned(t) => Requeued(t)

\* Nothing happens to task t in this step: it is not queued, assigned or
\* executed.
Untouched(t) ==
    /\ ~Queued(t)' /\ ~Assigned(t) /\ ~Requeued(t) /\ ~Supervised(t)'

\* C26 as stated: a task moves only along the state machine, a complete task
\* is in no non-terminal state, and once isComplete(id) is true the task is
\* never queued, assigned or executed again and its recorded outcome never
\* changes.
C26_TaskStateMachine ==
    [][\A t \in SubmittedIds :
        /\ FollowsStateMachine(t)
        /\ Terminal(t) =>
                /\ Untouched(t)
                /\ isComplete(t)' /\ taskResults'[t] = taskResults[t]]_vars

\* C26 as amended: the recorded outcome of a complete task stays until
\* clearResults() removes it; a task whose result was cleared is never queued,
\* assigned or executed again either, and gets no result again.
C26_TerminalUntilCleared ==
    [][\A t \in SubmittedIds :
        /\ lastCall'.op # "clearResults" => FollowsStateMachine(t)
        /\ Terminal(t) =>
                /\ Untouched(t)
                /\ IF lastCall'.op = "clearResults" THEN Phase(t)' = "cleared"
                   ELSE isComplete(t)' /\ taskResults'[t] = taskResults[t]
        /\ Phase(t) = "cleared" => Phase(t)' = "cleared" /\ Untouched(t)]_vars

\* Task 2 was retried and is Failed-Final while a handler of one of its
\* attempts still runs on a node, and task 1 is Completed.
C26_Witness ==
    /\ Phase(1) = "Completed"
    /\ Phase(2) = "Failed-Final" /\ hist[2].requeues >= 1
    /\ \E e \in executions : e.task = 2 /\ e.running
\* The ids of the peers in a peer table.
Known(peers) == {peers[i].id : i \in 1..Len(peers)}

\* C27: a heartbeat tick adds and removes no peer record and changes nothing
\* of a record but its status; the set of known peers changes only by
\* registerPeer, unregisterPeer, or handleMessage from a sender not known yet.
C27_AgingKeepsPeers ==
    [][/\ lastComm'.op = "tick" =>
            /\ PeerKeys(comm'.peers) = PeerKeys(comm.peers)
            /\ \A i \in 1..Len(comm.peers) :
                    comm'.peers[i] = [comm.peers[i] EXCEPT !.status = comm'.peers[i].status]
       /\ Known(comm'.peers) # Known(comm.peers) =>
            \/ lastComm'.op = "registerPeer"
                    /\ Known(comm'.peers) = Known(comm.peers) \cup {lastComm'.peer}
            \/ lastComm'.op = "unregisterPeer"
                    /\ Known(comm'.peers) = Known(comm.peers) \ {lastComm'.peer}
            \/ lastComm'.op = "handleMessage"
                    /\ lastComm'.from \notin Known(comm.peers)
                    /\ Known(comm'.peers) = Known(comm.peers) \cup {lastComm'.from}]_vars

\* A tick has just found both peers too old: both are offline and both are
\* still in the peer table.
C27_Witness ==
    /\ lastComm.op = "tick"
    /\ Len(comm.peers) = 2
    /\ \A i \in 1..Len(comm.peers) :
            comm.peers[i].status = "offline" /\ now - comm.peers[i].lastSeen = 400
\* C28: a heartbeat tick changes only the peer table: the pending messages,
\* the handlers and the configuration of the Communication object, and the
\* whole scheduler state, are as before it.
C28_TickFrame ==
    [][lastComm'.op = "tick" =>
        /\ comm'.pendingMessages = comm.pendingMessages
        /\ comm'.messageHandlers = comm.messageHandlers
        /\ comm'.config = comm.config
        /\ UNCHANGED coreVars]_vars
\* This step is a call of setStatus on node n, or leaves node n alone: of
\* the node, at most the status changes, and no execution starts or settles.
OnlyStatusSet(n) ==
    /\ node'[n] = [node[n] EXCEPT !.status = node'[n].status]
    /\ UNCHANGED executions

\* C29: a node that setStatus made offline stays offline, and its assignTask
\* returns false, until setStatus is called again: the completion of the
\* tasks it holds does not bring it back.
C29_OfflineSticky ==
    [][\A n \in NodeIds : node[n].status = "offline" =>
        /\ node'[n].status # "offline" => OnlyStatusSet(n)
        /\ lastCall'.op = "assignTask" /\ lastCall'.node = n => ~lastCall'.returned]_vars
\* How many times task t is in the queue, how many of its execution attempts
\* the scheduler supervises and has not seen settle, and whether it has a
\* result.
QueueCount(t) == Cardinality({i \in 1..Len(taskQueue) : taskQueue[i] = t})
SupervisedCount(t) ==
    Cardinality({e \in executions : e.task = t /\ e.supervised /\ e.race = "pending"})
ResultCount(t) == IF HasResult(t) THEN 1 ELSE 0

\* C30: every submitted task is at every moment in exactly one place: once in
\* the queue, under one supervised execution attempt that has not settled, or
\* in the result table.
C30_NoTaskLostOrDuplicated ==
    \A t \in TaskIds :
        QueueCount(t) + SupervisedCount(t) + ResultCount(t)
            = IF hist[t].submitted THEN 1 ELSE 0

\* Task 1 has its result; task 2 timed out and was requeued, and is under its
\* second attempt while the handler of the first still runs.
C30_Witness ==
    /\ ResultCount(1) = 1
    /\ hist[2].requeues = 1 /\ SupervisedCount(2) = 1
    /\ Cardinality({e \in executions : e.task = 2 /\ e.running}) = 2

====
